---- MODULE Spec2Model ----
(***************************************************************************)
(* Model of src/adc.rs of stm32f7xx-hal: the ADC driver (one Adc<ADCx>     *)
(* instance), the register block it drives, and the converter hardware as  *)
(* a process running next to the driver.                                   *)
(*                                                                         *)
(* Registers written through raw bits (SMPR1, SMPR2, SQR1, SQR2, SQR3) are  *)
(* 32-bit integers; bit 31 is reserved in all of them, so every value      *)
(* stays below 2^31.  Registers the driver only touches through named      *)
(* fields (CR1, CR2, SR, CCR) are records of those fields.                 *)
(***************************************************************************)
EXTENDS Integers, Sequences, FiniteSets, TLC

VARIABLES
    unit,            \* which peripheral the instance owns: "ADC1", "ADC2", "ADC3"
    pc,              \* position of the driver
    clk,             \* APB2 clock gate of the peripheral
    CR1, CR2, SR, DR,
    SMPR1, SMPR2,
    SQR1, SQR2, SQR3,
    CCR,             \* ADC_COMMON.ccr (shared by the three units)
    sample_time,     \* Adc.sample_time
    align,           \* Adc.align
    calibrated_vdda, \* Adc.calibrated_vdda
    max_sample,      \* Adc.max_sample
    conv,            \* hardware: the conversion in flight, or NoConv
    swBy,            \* ghost: id of the call whose write set CR2.SWSTART
    strtBy,          \* ghost: id of the trigger that raised SR.STRT
    noopWrite,       \* hardware: last CR2 write changed no bit while ADON=1
    call,            \* the API call in progress (kept after it returns)
    pre,             \* registers as they were when the call began
    trace,           \* hardware accesses of the call in progress, in order
    ret,             \* value returned by the last call that returns one
    transfer,        \* dma::Transfer built by with_dma, or NoTransfer
    ops,             \* number of API calls made on the instance
    budget,          \* number of API calls the run may make
    factory,         \* crate::signature: the factory calibration values of the chip
    built            \* ghost: the resolution the instance was constructed with

vars == <<unit, pc, clk, CR1, CR2, SR, DR, SMPR1, SMPR2, SQR1, SQR2, SQR3,
          CCR, sample_time, align, calibrated_vdda, max_sample, conv, swBy,
          strtBy, noopWrite, call, pre, trace, ret, transfer, ops, budget,
          factory, built>>

----------------------------------------------------------------------------
\* Bounds of the model.

\* API calls made on one instance after construction
MaxOps == 3
\* API calls in the sequencer specifications
MaxSeqOps == 1
\* longest channel list handed to set_regular_sequence
MaxSeqLen == 18
\* API calls in the fair specification
MaxLiveOps == 2

----------------------------------------------------------------------------
\* 32-bit bitwise arithmetic, as the register closures compute it.

\* The operands are bound to their values before the bits are walked, so
\* that a nested expression is evaluated once where it is used.

RECURSIVE BitAndBits(_, _)
BitAndBits(a, b) ==
    IF a = 0 \/ b = 0 THEN 0
    ELSE (IF a % 2 = 1 /\ b % 2 = 1 THEN 1 ELSE 0) + 2 * BitAndBits(a \div 2, b \div 2)

BitAnd(a, b) == CHOOSE r \in {BitAndBits(x, y) : x \in {a}, y \in {b}} : TRUE

RECURSIVE BitOrBits(_, _)
BitOrBits(a, b) ==
    IF a = 0 THEN b
    ELSE IF b = 0 THEN a
    ELSE (IF a % 2 = 1 \/ b % 2 = 1 THEN 1 ELSE 0) + 2 * BitOrBits(a \div 2, b \div 2)

BitOr(a, b) == CHOOSE r \in {BitOrBits(x, y) : x \in {a}, y \in {b}} : TRUE

\* a & !m
RECURSIVE AndNotBits(_, _)
AndNotBits(a, m) ==
    IF a = 0 THEN 0
    ELSE (IF a % 2 = 1 /\ m % 2 = 0 THEN 1 ELSE 0) + 2 * AndNotBits(a \div 2, m \div 2)

AndNot(a, m) == CHOOSE r \in {AndNotBits(x, y) : x \in {a}, y \in {m}} : TRUE

\* a << n on u32
Shl(a, n) == IF n = 0 THEN a ELSE (a % (2 ^ (32 - n))) * (2 ^ n)

\* bit b of register r
Bit(r, b) == (r \div (2 ^ b)) % 2

\* the w-bit field of r at offset off
Field(r, off, w) == (r \div (2 ^ off)) % (2 ^ w)

\* svd2rust field writer: w.<field>().bits(v), the value masked to the field
WriteField(r, off, w, v) ==
    BitOr(AndNot(r, Shl((2 ^ w) - 1, off)), Shl(BitAnd(v, (2 ^ w) - 1), off))

----------------------------------------------------------------------------
\* Types of the driver.

SampleTimes == {"T_3", "T_15", "T_28", "T_56", "T_84", "T_112", "T_144", "T_480"}

\* impl From<SampleTime> for u8, and the enum's discriminant (`as u32`)
SampleTimeCode(t) ==
    CASE t = "T_3" -> 0
      [] t = "T_15" -> 1
      [] t = "T_28" -> 2
      [] t = "T_56" -> 3
      [] t = "T_84" -> 4
      [] t = "T_112" -> 5
      [] t = "T_144" -> 6
      [] t = "T_480" -> 7

SampleTimeDefault == "T_56"

AlignDefault == "Right"

\* impl From<Align> for bool
AlignBit(a) == IF a = "Left" THEN 1 ELSE 0

Units == {"ADC1", "ADC2", "ADC3"}

\* address of the data register of a unit, named by the unit
DrAddress(u) == <<u, "dr">>

NoConv == [active |-> FALSE, trig |-> 0, chan |-> 0]

NoTransfer == [made |-> FALSE, address |-> <<"none", "none">>,
               direction |-> "none", target |-> "none", len |-> 0]

NoCall == [op |-> "none", id |-> 0, chan |-> 0, st |-> "T_56",
           channels |-> <<>>, flag |-> FALSE, n |-> 0]

MkCall(op, id, chan, st, channels, flag, n) ==
    [op |-> op, id |-> id, chan |-> chan, st |-> st,
     channels |-> channels, flag |-> flag, n |-> n]

Snapshot == [smpr1 |-> SMPR1, smpr2 |-> SMPR2, ccr |-> CCR,
             sqr1 |-> SQR1, sqr2 |-> SQR2, sqr3 |-> SQR3]

----------------------------------------------------------------------------
\* Sequencer: the bit packing of set_channel_sample_time and
\* set_regular_sequence, as functions of the register values.

\* the first statement of set_channel_sample_time: the modify of SMPR2 that
\* is made for every channel
SmprFirstWrite(smpr2, t) ==
    BitOr(AndNot(smpr2, 7), BitAnd(SampleTimeCode(t), 7))

\* the modify closure of either match arm, at field index k of register r
SmprArmWrite(r, k, t) ==
    BitOr(AndNot(r, Shl(7, k * 3)), Shl(BitAnd(SampleTimeCode(t), 7), k * 3))

\* set_channel_sample_time as a function: the two registers it leaves and
\* whether it ran into unreachable!()
SetChannelSampleTimeResult(smpr1, smpr2, chan, t) ==
    LET first == SmprFirstWrite(smpr2, t) IN
    IF chan \in 0..9
    THEN [smpr1 |-> smpr1, smpr2 |-> SmprArmWrite(first, chan, t), panic |-> FALSE]
    ELSE IF chan \in 10..18
    THEN [smpr1 |-> SmprArmWrite(smpr1, chan - 10, t), smpr2 |-> first, panic |-> FALSE]
    ELSE [smpr1 |-> smpr1, smpr2 |-> first, panic |-> TRUE]

\* channels.iter().skip(skip).take(take).enumerate().fold(0, |s,(i,c)| s | c << i*5)
RECURSIVE SqrFold(_, _, _, _)
SqrFold(channels, skip, take, i) ==
    IF i >= take \/ skip + i + 1 > Len(channels) THEN 0
    ELSE BitOr(Shl(channels[skip + i + 1], i * 5),
               SqrFold(channels, skip, take, i + 1))

\* (len - 1) as u8, written through the 4-bit writer of SQR1.L
SqrLength(sqr1, len) == WriteField(sqr1, 20, 4, (len - 1) % 256)

\* set_regular_sequence with the second register written one entry too late
SetRegularSequenceResult_LateSqr2(sqr1, sqr2, sqr3, channels) ==
    LET len == Len(channels)
        s1 == IF len > 12 THEN SqrFold(channels, 12, 4, 0) ELSE sqr1
    IN [sqr3 |-> SqrFold(channels, 0, 6, 0),
        sqr2 |-> IF len > 7 THEN SqrFold(channels, 6, 6, 0) ELSE sqr2,
        sqr1 |-> SqrLength(s1, len)]

\* set_regular_sequence as a function of the three registers
SetRegularSequenceResult(sqr1, sqr2, sqr3, channels) ==
    LET len == Len(channels)
        s1 == IF len > 12 THEN SqrFold(channels, 12, 4, 0) ELSE sqr1
    IN [sqr3 |-> SqrFold(channels, 0, 6, 0),
        sqr2 |-> IF len > 6 THEN SqrFold(channels, 6, 6, 0) ELSE sqr2,
        sqr1 |-> SqrLength(s1, len)]

\* what the hardware reads from the sequence registers: slot j (0..15) and
\* the sequence it will convert, L+1 slots long
SeqSlot(sqr1, sqr2, sqr3, j) ==
    IF j < 6 THEN Field(sqr3, 5 * j, 5)
    ELSE IF j < 12 THEN Field(sqr2, 5 * (j - 6), 5)
    ELSE Field(sqr1, 5 * (j - 12), 5)

SeqLengthField(sqr1) == Field(sqr1, 20, 4)

DecodeSequence(sqr1, sqr2, sqr3) ==
    [j \in 1..(SeqLengthField(sqr1) + 1) |-> SeqSlot(sqr1, sqr2, sqr3, j - 1)]

----------------------------------------------------------------------------
\* The register block before the driver takes it.

\* pack the values of seq into w-bit fields, the first at bit 0
RECURSIVE Pack(_, _)
Pack(seq, w) ==
    IF seq = <<>> THEN 0 ELSE Head(seq) + (2 ^ w) * Pack(Tail(seq), w)

\* the registers after a peripheral reset
ResetImage ==
    [CR1 |-> [scan |-> 0, discen |-> 0, discnum |-> 0, res |-> 0],
     CR2 |-> [cont |-> 0, adon |-> 0, swstart |-> 0, align |-> 0, dma |-> 0, dds |-> 0],
     SR |-> [eoc |-> 0, strt |-> 0],
     DR |-> [data |-> 0, trig |-> 0],
     SMPR1 |-> 0, SMPR2 |-> 0, SQR1 |-> 0, SQR2 |-> 0, SQR3 |-> 0]

\* registers left by earlier software (a warm restart): powered on, scanning
\* continuously a six-channel sequence, every field in use
DirtyImage ==
    [CR1 |-> [scan |-> 1, discen |-> 0, discnum |-> 3, res |-> 2],
     CR2 |-> [cont |-> 1, adon |-> 1, swstart |-> 0, align |-> 1, dma |-> 1, dds |-> 1],
     SR |-> [eoc |-> 1, strt |-> 1],
     DR |-> [data |-> 1500, trig |-> 0],
     SMPR1 |-> Pack(<<5, 2, 7, 1, 6, 3, 4, 7, 2>>, 3),
     SMPR2 |-> Pack(<<6, 1, 7, 2, 5, 3, 4, 7, 1, 6>>, 3),
     SQR1 |-> Pack(<<9, 30, 4, 17>>, 5) + 5 * (2 ^ 20),
     SQR2 |-> Pack(<<11, 2, 29, 8, 16, 5>>, 5),
     SQR3 |-> Pack(<<14, 31, 6, 10, 27, 13>>, 5)]

\* the factory calibration values of a chip: the reference voltage of the
\* calibration in mV and the code of the reference channel recorded then
FactoryCalibration == [vdda_calib |-> 3300, vref_cal |-> 1489]

\* a chip whose factory reference is 1210 mV
FactoryCalibration1210 == [vdda_calib |-> 1210, vref_cal |-> 1489]

\* crate::signature::VDDA_CALIB, the factory reference voltage in mV
VDDA_CALIB == factory.vdda_calib

\* results a conversion can deliver
SampleValues == {0, 1500}

InitWith(us, images, calls, factories) ==
    /\ unit \in us
    /\ \E img \in images :
         /\ CR1 = img.CR1 /\ CR2 = img.CR2 /\ SR = img.SR /\ DR = img.DR
         /\ SMPR1 = img.SMPR1 /\ SMPR2 = img.SMPR2
         /\ SQR1 = img.SQR1 /\ SQR2 = img.SQR2 /\ SQR3 = img.SQR3
    /\ pc = "new"
    /\ clk = FALSE
    /\ CCR = [tsvrefe |-> 0, vbate |-> 0]
    /\ sample_time = SampleTimeDefault
    /\ align = AlignDefault
    /\ calibrated_vdda = 0
    /\ max_sample = 0
    /\ conv = NoConv
    /\ swBy = 0
    /\ strtBy = 0
    /\ noopWrite = FALSE
    /\ call = NoCall
    /\ pre = Snapshot
    /\ trace = <<>>
    /\ ret = [data |-> 0, trig |-> 0]
    /\ transfer = NoTransfer
    /\ ops = 0
    /\ budget = calls
    /\ factory \in factories
    /\ built = [bits |-> 0]

----------------------------------------------------------------------------
\* Writes of CR2.

\* rb.cr2.modify(..): the new value is stored; the hardware notes a write
\* that changed no bit while ADON was set; a closure that sets SWSTART makes
\* call `id` the requester of the next start
WriteCR2(new, setsSwstart, id) ==
    /\ CR2' = new
    /\ noopWrite' = (new = CR2 /\ CR2.adon = 1)
    /\ swBy' = IF setsSwstart THEN id ELSE swBy

\* frame of the hardware side for steps that do not write CR2
HwQuiet == UNCHANGED <<CR2, noopWrite, swBy, conv, strtBy>>

\* frame of the instance's software fields
SoftQuiet == UNCHANGED <<unit, sample_time, align, calibrated_vdda, max_sample>>

----------------------------------------------------------------------------
\* Construction: Adc::adc1 / adc2 / adc3.

\* the struct literal and <$ADC>::enable(apb2)
adc_new(nb_resolution_bits, reset) ==
    /\ pc = "new"
    /\ sample_time' = SampleTimeDefault
    /\ align' = AlignDefault
    /\ calibrated_vdda' = VDDA_CALIB
    /\ max_sample' = Shl(1, nb_resolution_bits)
    /\ clk' = TRUE
    /\ call' = MkCall("new", 0, 0, SampleTimeDefault, <<>>, reset, nb_resolution_bits)
    /\ pre' = Snapshot
    /\ trace' = <<"rcc.enable">>
    /\ pc' = IF reset THEN "new_power_down" ELSE "new_setup_oneshot"
    /\ built' = [bits |-> nb_resolution_bits]
    /\ UNCHANGED <<unit, CR1, CR2, SR, DR, SMPR1, SMPR2, SQR1, SQR2, SQR3, CCR,
                   conv, swBy, strtBy, noopWrite, ret, transfer, ops, budget, factory>>

\* s.power_down() of the reset branch
new_power_down ==
    /\ pc = "new_power_down"
    /\ WriteCR2([CR2 EXCEPT !.adon = 0], FALSE, 0)
    /\ trace' = Append(trace, "cr2.adon=0")
    /\ pc' = "new_reset"
    /\ UNCHANGED <<unit, clk, CR1, SR, DR, SMPR1, SMPR2, SQR1, SQR2, SQR3, CCR,
                   sample_time, align, calibrated_vdda, max_sample, conv, strtBy,
                   call, pre, ret, transfer, ops, budget, factory, built>>

\* <$ADC>::reset(apb2): the register block returns to its reset values
new_reset ==
    /\ pc = "new_reset"
    /\ CR1' = ResetImage.CR1 /\ CR2' = ResetImage.CR2
    /\ SR' = ResetImage.SR /\ DR' = ResetImage.DR
    /\ SMPR1' = 0 /\ SMPR2' = 0 /\ SQR1' = 0 /\ SQR2' = 0 /\ SQR3' = 0
    /\ conv' = NoConv /\ swBy' = 0 /\ strtBy' = 0 /\ noopWrite' = FALSE
    /\ trace' = Append(trace, "rcc.reset")
    /\ pc' = "new_setup_oneshot"
    /\ UNCHANGED <<unit, clk, CCR, sample_time, align, calibrated_vdda, max_sample,
                   call, pre, ret, transfer, ops, budget, factory, built>>

\* setup_oneshot without the DISCEN write
SetupOneshotCR1_NoDiscen(cr1) == [cr1 EXCEPT !.scan = 0]

\* the CR1 value setup_oneshot writes
SetupOneshotCR1(cr1) == [cr1 EXCEPT !.scan = 0, !.discen = 1]

\* s.setup_oneshot()
setup_oneshot ==
    /\ pc = "new_setup_oneshot"
    /\ WriteCR2([CR2 EXCEPT !.cont = 0, !.swstart = 1], TRUE, 0)
    /\ CR1' = SetupOneshotCR1(CR1)
    /\ SQR1' = WriteField(SQR1, 20, 4, 0)
    /\ trace' = trace \o <<"cr2.cont=0,swstart=1", "cr1.scan=0,discen=1", "sqr1.l=0">>
    /\ pc' = "new_resolution"
    /\ UNCHANGED <<unit, clk, SR, DR, SMPR1, SMPR2, SQR2, SQR3, CCR,
                   sample_time, align, calibrated_vdda, max_sample, conv, strtBy,
                   call, pre, ret, transfer, ops, budget, factory, built>>

\* the RES code resolution() selects
ResolutionCode(resol_bits) ==
    CASE resol_bits = 12 -> 0
      [] resol_bits = 10 -> 1
      [] resol_bits = 8 -> 2
      [] resol_bits = 6 -> 3
      [] OTHER -> 0

\* s.resolution(nb_resolution_bits)
resolution ==
    /\ pc = "new_resolution"
    /\ CR1' = [CR1 EXCEPT !.res = ResolutionCode(call.n)]
    /\ trace' = Append(trace, "cr1.res")
    /\ pc' = "new_power_up"
    /\ UNCHANGED <<unit, clk, CR2, SR, DR, SMPR1, SMPR2, SQR1, SQR2, SQR3, CCR,
                   sample_time, align, calibrated_vdda, max_sample, conv, swBy,
                   strtBy, noopWrite, call, pre, ret, transfer, ops, budget, factory, built>>

\* s.power_up(): ADON set, then delay(sysclk / 800_000); the constructor returns
power_up ==
    /\ pc = "new_power_up"
    /\ WriteCR2([CR2 EXCEPT !.adon = 1], FALSE, 0)
    /\ trace' = trace \o <<"cr2.adon=1", "delay">>
    /\ pc' = "idle"
    /\ UNCHANGED <<unit, clk, CR1, SR, DR, SMPR1, SMPR2, SQR1, SQR2, SQR3, CCR,
                   sample_time, align, calibrated_vdda, max_sample, conv, strtBy,
                   call, pre, ret, transfer, ops, budget, factory, built>>

----------------------------------------------------------------------------
\* The converter hardware.

\* a pending software start is taken while the converter is powered: the
\* conversion of the first slot of the regular sequence begins (one already
\* in flight is replaced), STRT is raised, SWSTART is cleared by hardware
HwStart ==
    /\ pc # "new"
    /\ CR2.swstart = 1 /\ CR2.adon = 1
    /\ conv' = [active |-> TRUE, trig |-> swBy, chan |-> Field(SQR3, 0, 5)]
    /\ SR' = [SR EXCEPT !.strt = 1]
    /\ strtBy' = swBy
    /\ CR2' = [CR2 EXCEPT !.swstart = 0]
    /\ UNCHANGED <<unit, pc, clk, CR1, DR, SMPR1, SMPR2, SQR1, SQR2, SQR3, CCR,
                   sample_time, align, calibrated_vdda, max_sample, swBy,
                   noopWrite, call, pre, trace, ret, transfer, ops, budget, factory, built>>

\* SWSTART written while ADON=0 launches nothing
HwIgnoreStart ==
    /\ pc # "new"
    /\ CR2.swstart = 1 /\ CR2.adon = 0
    /\ CR2' = [CR2 EXCEPT !.swstart = 0]
    /\ UNCHANGED <<unit, pc, clk, CR1, SR, DR, SMPR1, SMPR2, SQR1, SQR2, SQR3, CCR,
                   sample_time, align, calibrated_vdda, max_sample, conv, swBy,
                   strtBy, noopWrite, call, pre, trace, ret, transfer, ops, budget, factory, built>>

\* the NOTE above convert: a write of CR2 that changes no bit while ADON is
\* set can start a conversion nobody asked for (trigger id 0)
HwNoopStart ==
    /\ pc # "new"
    /\ noopWrite
    /\ noopWrite' = FALSE
    /\ conv' = [active |-> TRUE, trig |-> 0, chan |-> Field(SQR3, 0, 5)]
    /\ SR' = [SR EXCEPT !.strt = 1]
    /\ strtBy' = 0
    /\ UNCHANGED <<unit, pc, clk, CR1, CR2, DR, SMPR1, SMPR2, SQR1, SQR2, SQR3, CCR,
                   sample_time, align, calibrated_vdda, max_sample, swBy,
                   call, pre, trace, ret, transfer, ops, budget, factory, built>>

\* the conversion in flight ends: its result goes to DR and EOC is raised;
\* with CONT set the converter goes on with the next conversion
HwComplete(d) ==
    /\ pc # "new"
    /\ conv.active
    /\ DR' = [data |-> d, trig |-> conv.trig]
    /\ SR' = [SR EXCEPT !.eoc = 1]
    /\ conv' = IF CR2.cont = 1 THEN conv ELSE NoConv
    /\ UNCHANGED <<unit, pc, clk, CR1, CR2, SMPR1, SMPR2, SQR1, SQR2, SQR3, CCR,
                   sample_time, align, calibrated_vdda, max_sample, swBy, strtBy,
                   noopWrite, call, pre, trace, ret, transfer, ops, budget, factory, built>>

Hardware ==
    \/ HwStart
    \/ HwIgnoreStart
    \/ HwNoopStart
    \/ \E d \in SampleValues : HwComplete(d)

----------------------------------------------------------------------------
\* Sequencer operations (trait ChannelTimeSequence).

\* common part of the entry of every API call made on the idle instance:
\* the call is recorded with its arguments and counted
ApiCall(op, chan, st, channels, flag, n) ==
    /\ pc = "idle"
    /\ ops < budget
    /\ call' = MkCall(op, ops + 1, chan, st, channels, flag, n)
    /\ pre' = Snapshot
    /\ ops' = ops + 1

set_channel_sample_time(chan, t) ==
    /\ ApiCall("set_channel_sample_time", chan, t, <<>>, FALSE, 0)
    /\ LET r == SetChannelSampleTimeResult(SMPR1, SMPR2, chan, t) IN
         /\ SMPR1' = r.smpr1
         /\ SMPR2' = r.smpr2
         /\ pc' = IF r.panic THEN "panic" ELSE "idle"
    /\ trace' = <<>>
    /\ HwQuiet /\ SoftQuiet
    /\ UNCHANGED <<clk, CR1, SR, DR, SQR1, SQR2, SQR3, CCR, ret, transfer, budget, factory, built>>

set_regular_sequence(channels) ==
    /\ ApiCall("set_regular_sequence", 0, SampleTimeDefault, channels, FALSE, 0)
    /\ LET r == SetRegularSequenceResult(SQR1, SQR2, SQR3, channels) IN
         /\ SQR1' = r.sqr1
         /\ SQR2' = r.sqr2
         /\ SQR3' = r.sqr3
    /\ trace' = <<>>
    /\ HwQuiet /\ SoftQuiet
    /\ UNCHANGED <<pc, clk, CR1, SR, DR, SMPR1, SMPR2, CCR, ret, transfer, budget, factory, built>>

----------------------------------------------------------------------------
\* Specifications of the sequencer on its own: an instance is constructed
\* over either register image and the packing operations are applied to it.

Construct(bitsSet) ==
    \/ \E b \in bitsSet, r \in BOOLEAN : adc_new(b, r)
    \/ new_power_down
    \/ new_reset
    \/ setup_oneshot
    \/ resolution
    \/ power_up

\* channels of the sample-time operation: every valid one and the first invalid
SmpChannels == 0..19

InitSmp == InitWith({"ADC1"}, {ResetImage, DirtyImage}, MaxSeqOps, {FactoryCalibration})

NextSmp ==
    \/ Construct({12})
    \/ Hardware
    \/ \E c \in SmpChannels, t \in SampleTimes : set_channel_sample_time(c, t)

SpecSmp == InitSmp /\ [][NextSmp]_vars

\* channel lists: arithmetic progressions modulo 32 of every length, and the
\* list of the scenario
SeqInputs ==
    { [i \in 1..n |-> (s + (i - 1) * k) % 32] :
        n \in 1..MaxSeqLen, s \in {3, 31}, k \in {1, 7} }
    \cup { <<3, 7, 12, 1>> }

InitSeq == InitWith({"ADC1"}, {ResetImage, DirtyImage}, MaxSeqOps, {FactoryCalibration})

NextSeq ==
    \/ Construct({12})
    \/ Hardware
    \/ \E chs \in SeqInputs : set_regular_sequence(chs)

SpecSeq == InitSeq /\ [][NextSeq]_vars

----------------------------------------------------------------------------
\* Claims about the sequencer.

\* the sample-time register and field index of channel c
SmprOffset(c) == IF c <= 9 THEN 3 * c ELSE 3 * (c - 10)

\* bits 0..30 of old and new agree outside the 3-bit field at offset off
SameOutsideField(old, new, off) ==
    \A b \in 0..30 : (b < off \/ b > off + 2) => Bit(new, b) = Bit(old, b)

\* C4: set_channel_sample_time(c, t) with c in 0..=18 sets the 3-bit field of
\* channel c (SMPR2 for 0..=9, SMPR1 for 10..=18) to the code of t and
\* changes no other bit of either sample-time register.
C4_SampleTimeTouchesOnlyItsField ==
    (call.op = "set_channel_sample_time" /\ call.chan \in 0..18) =>
        LET off == SmprOffset(call.chan) IN
        IF call.chan <= 9
        THEN /\ Field(SMPR2, off, 3) = SampleTimeCode(call.st)
             /\ SameOutsideField(pre.smpr2, SMPR2, off)
             /\ SMPR1 = pre.smpr1
        ELSE /\ Field(SMPR1, off, 3) = SampleTimeCode(call.st)
             /\ SameOutsideField(pre.smpr1, SMPR1, off)
             /\ SMPR2 = pre.smpr2

\* C5: after set_regular_sequence of 1..16 channels in 0..=31, whatever the
\* registers held before, the sequence registers decode to exactly those
\* channels in order and the length field is L-1; [3,7,12,1] fills slots
\* 0..3 of SQR3 with length field 3.
C5_SequenceRoundTrip ==
    (call.op = "set_regular_sequence" /\ Len(call.channels) \in 1..16) =>
        /\ DecodeSequence(SQR1, SQR2, SQR3) = call.channels
        /\ SeqLengthField(SQR1) = Len(call.channels) - 1
        /\ call.channels = <<3, 7, 12, 1>> =>
             /\ Field(SQR3, 0, 5) = 3 /\ Field(SQR3, 5, 5) = 7
             /\ Field(SQR3, 10, 5) = 12 /\ Field(SQR3, 15, 5) = 1
             /\ SeqLengthField(SQR1) = 3

\* a full 16-channel list written over registers that held another sequence
C5_Witness ==
    /\ call.op = "set_regular_sequence"
    /\ Len(call.channels) = 16
    /\ pre.sqr3 # 0 /\ pre.sqr2 # 0
    /\ pre.sqr3 # SQR3

\* C6: set_regular_sequence of more than 16 channels leaves a register image
\* that describes the first 16 channels in order.
C6_LongSequenceTruncated ==
    (call.op = "set_regular_sequence" /\ Len(call.channels) > 16) =>
        DecodeSequence(SQR1, SQR2, SQR3) = SubSeq(call.channels, 1, 16)

----------------------------------------------------------------------------
\* Software-side configuration and mode flags.

set_sample_time(t_samp) ==
    /\ ApiCall("set_sample_time", 0, t_samp, <<>>, FALSE, 0)
    /\ sample_time' = t_samp
    /\ trace' = <<>>
    /\ HwQuiet
    /\ UNCHANGED <<unit, pc, clk, CR1, SR, DR, SMPR1, SMPR2, SQR1, SQR2, SQR3, CCR,
                   align, calibrated_vdda, max_sample, ret, transfer, budget, factory, built>>

set_align(a) ==
    /\ ApiCall("set_align", 0, SampleTimeDefault, <<>>, a = "Left", 0)
    /\ align' = a
    /\ trace' = <<>>
    /\ HwQuiet
    /\ UNCHANGED <<unit, pc, clk, CR1, SR, DR, SMPR1, SMPR2, SQR1, SQR2, SQR3, CCR,
                   sample_time, calibrated_vdda, max_sample, ret, transfer, budget, factory, built>>

set_continuous_mode(continuous) ==
    /\ ApiCall("set_continuous_mode", 0, SampleTimeDefault, <<>>, continuous, 0)
    /\ WriteCR2([CR2 EXCEPT !.cont = IF continuous THEN 1 ELSE 0], FALSE, 0)
    /\ trace' = <<"cr2.cont">>
    /\ SoftQuiet
    /\ UNCHANGED <<pc, clk, CR1, SR, DR, SMPR1, SMPR2, SQR1, SQR2, SQR3, CCR,
                   conv, strtBy, ret, transfer, budget, factory, built>>

\* Option<u8> of set_discontinuous_mode: None, or Some(count)
None == -1

\* the CR1 value set_discontinuous_mode writes; DISCNUM is a 3-bit field
DiscontinuousCR1(cr1, channels_count) ==
    IF channels_count = None
    THEN [cr1 EXCEPT !.discen = 0]
    ELSE [cr1 EXCEPT !.discen = 1, !.discnum = BitAnd(channels_count, 7)]

set_discontinuous_mode(channels_count) ==
    /\ ApiCall("set_discontinuous_mode", 0, SampleTimeDefault, <<>>, FALSE, channels_count)
    /\ CR1' = DiscontinuousCR1(CR1, channels_count)
    /\ trace' = <<"cr1.discen">>
    /\ HwQuiet /\ SoftQuiet
    /\ UNCHANGED <<pc, clk, SR, DR, SMPR1, SMPR2, SQR1, SQR2, SQR3, CCR, ret, transfer, budget, factory, built>>

----------------------------------------------------------------------------
\* Conversion engine: convert and start_conversion, one step per hardware
\* access.  An iteration of a busy-wait that finds its flag clear changes
\* nothing and is a stuttering step.

\* where the caller of convert goes on
AfterConvert(op) ==
    CASE op = "read_vref" -> "rv_restore"
      [] op = "calibrate" -> "cal_compute"
      [] OTHER -> "idle"

\* entry of pub fn convert(chan)
convert(chan) ==
    /\ ApiCall("convert", chan, sample_time, <<>>, FALSE, 0)
    /\ pc' = "conv_dummy_read"
    /\ trace' = <<>>
    /\ HwQuiet /\ SoftQuiet
    /\ UNCHANGED <<clk, CR1, SR, DR, SMPR1, SMPR2, SQR1, SQR2, SQR3, CCR, ret, transfer, budget, factory, built>>

\* self.current_sample(): the dummy read; a read of DR clears EOC
conv_dummy_read ==
    /\ pc = "conv_dummy_read"
    /\ SR' = [SR EXCEPT !.eoc = 0]
    /\ trace' = Append(trace, "dr.read")
    /\ pc' = "conv_sample_time"
    /\ HwQuiet /\ SoftQuiet
    /\ UNCHANGED <<clk, CR1, DR, SMPR1, SMPR2, SQR1, SQR2, SQR3, CCR,
                   call, pre, ret, transfer, ops, budget, factory, built>>

\* self.set_channel_sample_time(chan, self.sample_time)
conv_sample_time ==
    /\ pc = "conv_sample_time"
    /\ LET r == SetChannelSampleTimeResult(SMPR1, SMPR2, call.chan, sample_time) IN
         /\ SMPR1' = r.smpr1
         /\ SMPR2' = r.smpr2
         /\ pc' = IF r.panic THEN "panic" ELSE "conv_sq1"
    /\ trace' = Append(trace, "smpr.write")
    /\ HwQuiet /\ SoftQuiet
    /\ UNCHANGED <<clk, CR1, SR, DR, SQR1, SQR2, SQR3, CCR,
                   call, pre, ret, transfer, ops, budget, factory, built>>

\* the sequence-slot write of a convert that goes on without clearing EOC
conv_sq1_NoClear ==
    /\ pc = "conv_sq1"
    /\ SQR3' = WriteField(SQR3, 0, 5, call.chan)
    /\ trace' = Append(trace, "sqr3.sq1")
    /\ pc' = "sc_swstart"
    /\ HwQuiet /\ SoftQuiet
    /\ UNCHANGED <<clk, CR1, SR, DR, SMPR1, SMPR2, SQR1, SQR2, CCR,
                   call, pre, ret, transfer, ops, budget, factory, built>>

\* self.rb.sqr3.modify(|_, w| w.sq1().bits(chan))
conv_sq1 ==
    /\ pc = "conv_sq1"
    /\ SQR3' = WriteField(SQR3, 0, 5, call.chan)
    /\ trace' = Append(trace, "sqr3.sq1")
    /\ pc' = "sc_clear_eoc"
    /\ HwQuiet /\ SoftQuiet
    /\ UNCHANGED <<clk, CR1, SR, DR, SMPR1, SMPR2, SQR1, SQR2, CCR,
                   call, pre, ret, transfer, ops, budget, factory, built>>

\* entry of pub fn start_conversion()
start_conversion ==
    /\ ApiCall("start_conversion", 0, sample_time, <<>>, FALSE, 0)
    /\ pc' = "sc_clear_eoc"
    /\ trace' = <<>>
    /\ HwQuiet /\ SoftQuiet
    /\ UNCHANGED <<clk, CR1, SR, DR, SMPR1, SMPR2, SQR1, SQR2, SQR3, CCR, ret, transfer, budget, factory, built>>

\* self.clear_end_of_conversion_flag() inside start_conversion
sc_clear_eoc ==
    /\ pc = "sc_clear_eoc"
    /\ SR' = [SR EXCEPT !.eoc = 0]
    /\ trace' = Append(trace, "sr.eoc=0")
    /\ pc' = "sc_swstart"
    /\ HwQuiet /\ SoftQuiet
    /\ UNCHANGED <<clk, CR1, DR, SMPR1, SMPR2, SQR1, SQR2, SQR3, CCR,
                   call, pre, ret, transfer, ops, budget, factory, built>>

\* self.rb.cr2.modify(|_, w| w.swstart().set_bit().align().bit(self.align.into()))
\* sc_swstart writing the alignment without the software start
sc_swstart_AlignOnly ==
    /\ pc = "sc_swstart"
    /\ WriteCR2([CR2 EXCEPT !.align = AlignBit(align)], FALSE, call.id)
    /\ trace' = Append(trace, "cr2.swstart=1,align")
    /\ pc' = "sc_wait_strt"
    /\ SoftQuiet
    /\ UNCHANGED <<clk, CR1, SR, DR, SMPR1, SMPR2, SQR1, SQR2, SQR3, CCR,
                   conv, strtBy, call, pre, ret, transfer, ops, budget, factory, built>>

sc_swstart ==
    /\ pc = "sc_swstart"
    /\ WriteCR2([CR2 EXCEPT !.swstart = 1, !.align = AlignBit(align)], TRUE, call.id)
    /\ trace' = Append(trace, "cr2.swstart=1,align")
    /\ pc' = "sc_wait_strt"
    /\ SoftQuiet
    /\ UNCHANGED <<clk, CR1, SR, DR, SMPR1, SMPR2, SQR1, SQR2, SQR3, CCR,
                   conv, strtBy, call, pre, ret, transfer, ops, budget, factory, built>>

\* while !self.rb.sr.read().strt().bit_is_set() {}: the read that ends the loop
sc_wait_strt ==
    /\ pc = "sc_wait_strt"
    /\ SR.strt = 1
    /\ trace' = Append(trace, "sr.strt")
    /\ pc' = IF call.op = "start_conversion" THEN "idle" ELSE "conv_wait_eoc"
    /\ HwQuiet /\ SoftQuiet
    /\ UNCHANGED <<clk, CR1, SR, DR, SMPR1, SMPR2, SQR1, SQR2, SQR3, CCR,
                   call, pre, ret, transfer, ops, budget, factory, built>>

\* while self.rb.sr.read().eoc().bit_is_clear() {}: the read that ends the loop
conv_wait_eoc ==
    /\ pc = "conv_wait_eoc"
    /\ SR.eoc = 1
    /\ trace' = Append(trace, "sr.eoc")
    /\ pc' = "conv_read"
    /\ HwQuiet /\ SoftQuiet
    /\ UNCHANGED <<clk, CR1, SR, DR, SMPR1, SMPR2, SQR1, SQR2, SQR3, CCR,
                   call, pre, ret, transfer, ops, budget, factory, built>>

\* let res = self.current_sample(); res
conv_read ==
    /\ pc = "conv_read"
    /\ ret' = DR
    /\ SR' = [SR EXCEPT !.eoc = 0]
    /\ trace' = Append(trace, "dr.read")
    /\ pc' = AfterConvert(call.op)
    /\ HwQuiet /\ SoftQuiet
    /\ UNCHANGED <<clk, CR1, DR, SMPR1, SMPR2, SQR1, SQR2, SQR3, CCR,
                   call, pre, transfer, ops, budget, factory, built>>

ConvertSteps ==
    \/ conv_dummy_read
    \/ conv_sample_time
    \/ conv_sq1
    \/ sc_clear_eoc
    \/ sc_swstart
    \/ sc_wait_strt
    \/ conv_wait_eoc
    \/ conv_read

\* pub fn clear_end_of_conversion_flag()
clear_end_of_conversion_flag ==
    /\ ApiCall("clear_end_of_conversion_flag", 0, sample_time, <<>>, FALSE, 0)
    /\ SR' = [SR EXCEPT !.eoc = 0]
    /\ trace' = <<"sr.eoc=0">>
    /\ HwQuiet /\ SoftQuiet
    /\ UNCHANGED <<pc, clk, CR1, DR, SMPR1, SMPR2, SQR1, SQR2, SQR3, CCR, ret, transfer, budget, factory, built>>

\* pub fn current_sample()
current_sample ==
    /\ ApiCall("current_sample", 0, sample_time, <<>>, FALSE, 0)
    /\ ret' = DR
    /\ SR' = [SR EXCEPT !.eoc = 0]
    /\ trace' = <<"dr.read">>
    /\ HwQuiet /\ SoftQuiet
    /\ UNCHANGED <<pc, clk, CR1, DR, SMPR1, SMPR2, SQR1, SQR2, SQR3, CCR, transfer, budget, factory, built>>

----------------------------------------------------------------------------
\* Streaming hand-off and release.

\* the length check of dma::Transfer::new: the transfer-count register is
\* 16 bits wide
TransferLenOk(len) == len <= 65535

\* with_dma handing every buffer to the stream, whatever its length
with_dma_AnyLength(len) ==
    /\ ApiCall("with_dma", 0, sample_time, <<>>, FALSE, len)
    /\ CR1' = DiscontinuousCR1(CR1, None)
    /\ WriteCR2([CR2 EXCEPT !.align = AlignBit(align), !.dma = 1, !.dds = 1, !.adon = 1],
                FALSE, 0)
    /\ trace' = <<"cr1.discen=0", "cr2.align,dma=1,dds=1,adon=1">>
    /\ transfer' = [made |-> TRUE, address |-> DrAddress("ADC1"),
                    direction |-> "PeripheralToMemory", target |-> unit,
                    len |-> len]
    /\ pc' = "dma"
    /\ SoftQuiet
    /\ UNCHANGED <<clk, SR, DR, SMPR1, SMPR2, SQR1, SQR2, SQR3, CCR,
                   conv, strtBy, ret, budget, factory, built>>

\* pub fn with_dma(mut self, buffer, dma, stream)
with_dma(len) ==
    /\ ApiCall("with_dma", 0, sample_time, <<>>, FALSE, len)
    /\ CR1' = DiscontinuousCR1(CR1, None)
    /\ WriteCR2([CR2 EXCEPT !.align = AlignBit(align), !.dma = 1, !.dds = 1, !.adon = 1],
                FALSE, 0)
    /\ trace' = <<"cr1.discen=0", "cr2.align,dma=1,dds=1,adon=1">>
    /\ IF TransferLenOk(len)
       THEN /\ transfer' = [made |-> TRUE, address |-> DrAddress("ADC1"),
                            direction |-> "PeripheralToMemory", target |-> unit,
                            len |-> len]
            /\ pc' = "dma"
       ELSE /\ transfer' = NoTransfer
            /\ pc' = "panic"
    /\ SoftQuiet
    /\ UNCHANGED <<clk, SR, DR, SMPR1, SMPR2, SQR1, SQR2, SQR3, CCR,
                   conv, strtBy, ret, budget, factory, built>>

\* pub fn release(mut self, apb2)
release ==
    /\ ApiCall("release", 0, sample_time, <<>>, FALSE, 0)
    /\ WriteCR2([CR2 EXCEPT !.adon = 0], FALSE, 0)
    /\ clk' = FALSE
    /\ trace' = <<"cr2.adon=0", "rcc.disable">>
    /\ pc' = "released"
    /\ SoftQuiet
    /\ UNCHANGED <<CR1, SR, DR, SMPR1, SMPR2, SQR1, SQR2, SQR3, CCR,
                   conv, strtBy, ret, transfer, budget, factory, built>>

----------------------------------------------------------------------------
\* Internal channels of ADC1 and the calibration engine.

\* impl Channel<ADC1> for Vref
VrefChannel == 17

\* VrefCal::get().read(), the factory code of the reference channel
VrefCal == factory.vref_cal

enable_vbat ==
    /\ unit = "ADC1"
    /\ ApiCall("enable_vbat", 0, sample_time, <<>>, FALSE, 0)
    /\ CCR' = [CCR EXCEPT !.vbate = 1]
    /\ trace' = <<"ccr.vbate=1">>
    /\ HwQuiet /\ SoftQuiet
    /\ UNCHANGED <<pc, clk, CR1, SR, DR, SMPR1, SMPR2, SQR1, SQR2, SQR3,
                   ret, transfer, budget, factory, built>>

disable_vbat ==
    /\ unit = "ADC1"
    /\ ApiCall("disable_vbat", 0, sample_time, <<>>, FALSE, 0)
    /\ CCR' = [CCR EXCEPT !.vbate = 0]
    /\ trace' = <<"ccr.vbate=0">>
    /\ HwQuiet /\ SoftQuiet
    /\ UNCHANGED <<pc, clk, CR1, SR, DR, SMPR1, SMPR2, SQR1, SQR2, SQR3,
                   ret, transfer, budget, factory, built>>

\* the CCR value enable_temperature_and_vref leaves: disable_vbat(), then TSVREFE
EnableTempVrefCCR(ccr) == [ccr EXCEPT !.vbate = 0, !.tsvrefe = 1]

enable_temperature_and_vref ==
    /\ unit = "ADC1"
    /\ ApiCall("enable_temperature_and_vref", 0, sample_time, <<>>, FALSE, 0)
    /\ CCR' = EnableTempVrefCCR(CCR)
    /\ trace' = <<"ccr.vbate=0", "ccr.tsvrefe=1">>
    /\ HwQuiet /\ SoftQuiet
    /\ UNCHANGED <<pc, clk, CR1, SR, DR, SMPR1, SMPR2, SQR1, SQR2, SQR3,
                   ret, transfer, budget, factory, built>>

disable_temperature_and_vref ==
    /\ unit = "ADC1"
    /\ ApiCall("disable_temperature_and_vref", 0, sample_time, <<>>, FALSE, 0)
    /\ CCR' = [CCR EXCEPT !.tsvrefe = 0]
    /\ trace' = <<"ccr.tsvrefe=0">>
    /\ HwQuiet /\ SoftQuiet
    /\ UNCHANGED <<pc, clk, CR1, SR, DR, SMPR1, SMPR2, SQR1, SQR2, SQR3,
                   ret, transfer, budget, factory, built>>

\* read_vref up to its call of convert: tsv_off is kept in call.flag, the
\* number of accesses made before the convert in call.n
read_vref ==
    /\ unit = "ADC1"
    /\ LET tsv_off == CCR.tsvrefe = 0
           before == IF tsv_off THEN <<"ccr.vbate=0", "ccr.tsvrefe=1", "delay">> ELSE <<>>
       IN /\ ApiCall("read_vref", VrefChannel, sample_time, <<>>, tsv_off, Len(before))
          /\ CCR' = IF tsv_off THEN [CCR EXCEPT !.vbate = 0, !.tsvrefe = 1] ELSE CCR
          /\ trace' = before
    /\ pc' = "conv_dummy_read"
    /\ HwQuiet /\ SoftQuiet
    /\ UNCHANGED <<clk, CR1, SR, DR, SMPR1, SMPR2, SQR1, SQR2, SQR3,
                   ret, transfer, budget, factory, built>>

\* rv_restore with the block switched off whatever tsv_off was
rv_restore_AlwaysOff ==
    /\ pc = "rv_restore"
    /\ CCR' = [CCR EXCEPT !.tsvrefe = 0]
    /\ trace' = Append(trace, "ccr.tsvrefe=0")
    /\ pc' = "idle"
    /\ HwQuiet /\ SoftQuiet
    /\ UNCHANGED <<clk, CR1, SR, DR, SMPR1, SMPR2, SQR1, SQR2, SQR3,
                   call, pre, ret, transfer, ops, budget, factory, built>>

\* read_vref after convert has returned val
rv_restore ==
    /\ pc = "rv_restore"
    /\ CCR' = IF call.flag THEN [CCR EXCEPT !.tsvrefe = 0] ELSE CCR
    /\ trace' = IF call.flag THEN Append(trace, "ccr.tsvrefe=0") ELSE trace
    /\ pc' = "idle"
    /\ HwQuiet /\ SoftQuiet
    /\ UNCHANGED <<clk, CR1, SR, DR, SMPR1, SMPR2, SQR1, SQR2, SQR3,
                   call, pre, ret, transfer, ops, budget, factory, built>>

\* calibrate up to its call of convert: !vref_en is kept in call.flag
calibrate ==
    /\ unit = "ADC1"
    /\ LET vref_en == CCR.tsvrefe = 1
           before == IF vref_en THEN <<>> ELSE <<"ccr.vbate=0", "ccr.tsvrefe=1", "delay">>
       IN /\ ApiCall("calibrate", VrefChannel, sample_time, <<>>, ~vref_en, Len(before))
          /\ CCR' = IF vref_en THEN CCR ELSE EnableTempVrefCCR(CCR)
          /\ trace' = before
    /\ pc' = "conv_dummy_read"
    /\ HwQuiet /\ SoftQuiet
    /\ UNCHANGED <<clk, CR1, SR, DR, SMPR1, SMPR2, SQR1, SQR2, SQR3,
                   ret, transfer, budget, factory, built>>

\* cal_compute with the ratio of the two codes inverted
cal_compute_InverseRatio ==
    /\ pc = "cal_compute"
    /\ IF ret.data = 0
       THEN /\ pc' = "panic"
            /\ UNCHANGED <<calibrated_vdda, CCR, trace>>
       ELSE /\ calibrated_vdda' = (VDDA_CALIB * ret.data) \div VrefCal
            /\ CCR' = IF call.flag THEN [CCR EXCEPT !.tsvrefe = 0] ELSE CCR
            /\ trace' = IF call.flag THEN Append(trace, "ccr.tsvrefe=0") ELSE trace
            /\ pc' = "idle"
    /\ HwQuiet
    /\ UNCHANGED <<unit, sample_time, align, max_sample, clk, CR1, SR, DR, SMPR1, SMPR2,
                   SQR1, SQR2, SQR3, call, pre, ret, transfer, ops, budget, factory, built>>

\* cal_compute with the block restored before the division
cal_compute_RestoreFirst ==
    /\ pc = "cal_compute"
    /\ CCR' = IF call.flag THEN [CCR EXCEPT !.tsvrefe = 0] ELSE CCR
    /\ trace' = IF call.flag THEN Append(trace, "ccr.tsvrefe=0") ELSE trace
    /\ IF ret.data = 0
       THEN /\ pc' = "panic"
            /\ UNCHANGED calibrated_vdda
       ELSE /\ calibrated_vdda' = (VDDA_CALIB * VrefCal) \div ret.data
            /\ pc' = "idle"
    /\ HwQuiet
    /\ UNCHANGED <<unit, sample_time, align, max_sample, clk, CR1, SR, DR, SMPR1, SMPR2,
                   SQR1, SQR2, SQR3, call, pre, ret, transfer, ops, budget, factory, built>>

\* calibrate after convert has returned vref_samp: the u32 division panics
\* on a zero sample, before the block is restored
cal_compute ==
    /\ pc = "cal_compute"
    /\ IF ret.data = 0
       THEN /\ pc' = "panic"
            /\ UNCHANGED <<calibrated_vdda, CCR, trace>>
       ELSE /\ calibrated_vdda' = (VDDA_CALIB * VrefCal) \div ret.data
            /\ CCR' = IF call.flag THEN [CCR EXCEPT !.tsvrefe = 0] ELSE CCR
            /\ trace' = IF call.flag THEN Append(trace, "ccr.tsvrefe=0") ELSE trace
            /\ pc' = "idle"
    /\ HwQuiet
    /\ UNCHANGED <<unit, sample_time, align, max_sample, clk, CR1, SR, DR, SMPR1, SMPR2,
                   SQR1, SQR2, SQR3, call, pre, ret, transfer, ops, budget, factory, built>>

\* max_sample() returning the field as it is
MaxSampleReturn_NoDecrement == max_sample % 65536

\* max_sample(): (self.max_sample - 1) as u16
MaxSampleReturn == (max_sample - 1) % 65536

\* the value of sample_to_millivolts: the u32 quotient cast to u16. The
\* product stays below 2^31 for every sample and calibration drawn here.
SampleToMillivolts(sample, vdda, max) == ((sample * vdda) \div max) % 65536

sample_to_millivolts(sample) ==
    /\ ApiCall("sample_to_millivolts", 0, sample_time, <<>>, FALSE, sample)
    /\ ret' = [data |-> SampleToMillivolts(sample, calibrated_vdda, max_sample), trig |-> 0]
    /\ trace' = <<>>
    /\ HwQuiet /\ SoftQuiet
    /\ UNCHANGED <<pc, clk, CR1, SR, DR, SMPR1, SMPR2, SQR1, SQR2, SQR3, CCR,
                   transfer, budget, factory, built>>

----------------------------------------------------------------------------
\* The conversion specification: an ADC1 instance, the conversion calls and
\* the sequencer calls that share its registers, next to the hardware.

ConvChannels == {1, 17}

ConvSequences == {<<2, 5>>}

Init == InitWith({"ADC1"}, {ResetImage, DirtyImage}, MaxOps, {FactoryCalibration})

Next ==
    \/ Construct({12})
    \/ Hardware
    \/ ConvertSteps
    \/ \E c \in ConvChannels : convert(c)
    \/ start_conversion
    \/ current_sample
    \/ clear_end_of_conversion_flag
    \/ \E chs \in ConvSequences : set_regular_sequence(chs)
    \/ \E b \in BOOLEAN : set_continuous_mode(b)
    \/ \E a \in {"Left", "Right"} : set_align(a)

Spec == Init /\ [][Next]_vars

----------------------------------------------------------------------------
\* Claims about the conversion engine.

\* the hardware accesses of one convert, in the order of the source
ConvertOrder ==
    <<"dr.read", "smpr.write", "sqr3.sq1", "sr.eoc=0", "cr2.swstart=1,align",
      "sr.strt", "sr.eoc", "dr.read">>

\* the position of the driver after k accesses of a convert
ConvertPosition ==
    <<"conv_dummy_read", "conv_sample_time", "conv_sq1", "sc_clear_eoc",
      "sc_swstart", "sc_wait_strt", "conv_wait_eoc", "conv_read", "idle">>

\* C1: every convert makes its accesses in the order dummy read, sample time,
\* sequence slot, clear of EOC, software start with alignment, wait for STRT,
\* wait for EOC, result read: at every moment the accesses made so far are
\* the first k of that list, the driver stands at step k+1, and a convert
\* that has returned has made all eight.
C1_ConvertAccessOrder ==
    (call.op = "convert" /\ pc # "panic") =>
        /\ Len(trace) <= Len(ConvertOrder)
        /\ trace = SubSeq(ConvertOrder, 1, Len(trace))
        /\ pc = ConvertPosition[Len(trace) + 1]

\* a convert that has returned
C1_Witness ==
    /\ call.op = "convert"
    /\ pc = "idle"
    /\ Len(trace) = 8
    /\ ops >= 2

\* C2: the value convert returns is the result of the conversion that this
\* call triggered.
C2_ReturnsOwnConversion ==
    (call.op = "convert" /\ pc = "idle") => ret.trig = call.id

\* C3: when convert has issued the software start, the regular sequence is
\* the channel alone: slot 0 of SQR3 holds it and the length field is 0.
C3_SoleEntryAtStart ==
    (call.op = "convert" /\ pc = "sc_wait_strt") =>
        /\ Field(SQR3, 0, 5) = call.chan
        /\ SeqLengthField(SQR1) = 0

----------------------------------------------------------------------------
\* The lifecycle specification: each unit constructed over either register
\* image with every resolution argument, reconfigured, and handed to the
\* DMA or released.

ResolutionInputs == {12, 10, 8, 6, 7}

BufferLengths == {16, 65535, 65536}

\* no sub-group, and sub-groups of 1, 3 and 8 conversions
DiscontinuousInputs == {None, 1, 3, 8}

InitCtor == InitWith(Units, {ResetImage, DirtyImage}, MaxOps, {FactoryCalibration})

NextCtor ==
    \/ Construct(ResolutionInputs)
    \/ Hardware
    \/ \E b \in BOOLEAN : set_continuous_mode(b)
    \/ \E n \in DiscontinuousInputs : set_discontinuous_mode(n)
    \/ \E a \in {"Left", "Right"} : set_align(a)
    \/ \E len \in BufferLengths : with_dma(len)
    \/ release

SpecCtor == InitCtor /\ [][NextCtor]_vars

\* The internal-channel specification: an ADC1 instance, the enable bits of
\* the shared control block, read_vref and calibrate, next to the hardware.

InitCcr == InitWith({"ADC1"}, {ResetImage, DirtyImage}, MaxOps,
                    {FactoryCalibration, FactoryCalibration1210})

NextCcr ==
    \/ Construct({12})
    \/ Hardware
    \/ ConvertSteps
    \/ enable_vbat
    \/ disable_vbat
    \/ enable_temperature_and_vref
    \/ disable_temperature_and_vref
    \/ read_vref
    \/ rv_restore
    \/ calibrate
    \/ cal_compute

SpecCcr == InitCcr /\ [][NextCcr]_vars

----------------------------------------------------------------------------
\* Claims about the lifecycle and the internal channels.

\* C7: when with_dma hands the instance off, discontinuous mode is off,
\* continuous conversion is on, and DMA, DDS and ADON are set.
C7_DmaPosture ==
    (call.op = "with_dma" /\ pc = "dma") =>
        /\ CR1.discen = 0
        /\ CR2.cont = 1
        /\ CR2.dma = 1
        /\ CR2.dds = 1
        /\ CR2.adon = 1

\* C8: the transfer made by with_dma reads from the data register of the
\* unit of the instance, peripheral to memory, and owns the instance.
C8_TransferReadsOwnUnit ==
    transfer.made =>
        /\ transfer.address = DrAddress(unit)
        /\ transfer.direction = "PeripheralToMemory"
        /\ transfer.target = unit

\* the accesses of a construction, in order
ConstructOrder(reset) ==
    <<"rcc.enable">>
    \o (IF reset THEN <<"cr2.adon=0", "rcc.reset">> ELSE <<>>)
    \o <<"cr2.cont=0,swstart=1", "cr1.scan=0,discen=1", "sqr1.l=0", "cr1.res",
         "cr2.adon=1", "delay">>

\* C9: the constructor enables the clock first, powers off and resets (when
\* asked) before any configuration write, and returns in the one-shot posture:
\* CONT=0, DISCEN=1, SCAN=0, L=0, RES of the requested resolution, default
\* sample time and alignment, ADON=1 written last, then the delay.
C9_ConstructPosture ==
    (pc = "idle" /\ ops = 0) =>
        /\ clk
        /\ trace = ConstructOrder(call.flag)
        /\ CR2.cont = 0
        /\ CR1.discen = 1
        /\ CR1.scan = 0
        /\ SeqLengthField(SQR1) = 0
        /\ call.n = 12 => CR1.res = 0
        /\ call.n = 10 => CR1.res = 1
        /\ call.n = 8 => CR1.res = 2
        /\ call.n = 6 => CR1.res = 3
        /\ sample_time = "T_56"
        /\ align = "Right"
        /\ CR2.adon = 1

\* an instance constructed without reset over registers left scanning
\* continuously, for a resolution other than the reset default
C9_Witness ==
    /\ pc = "idle" /\ ops = 0
    /\ ~call.flag
    /\ call.n = 6
    /\ pre.sqr1 = DirtyImage.SQR1
    /\ CR2.dma = 1

\* C10: TSVREFE and VBATE are never both set.
C10_NeverBothEnabled ==
    ~(CCR.tsvrefe = 1 /\ CCR.vbate = 1)

----------------------------------------------------------------------------
\* The internal reference: read_vref, calibrate and the conversion to mV.

\* the accesses of the trace that write the shared control block
CcrWrites == {"ccr.vbate=1", "ccr.vbate=0", "ccr.tsvrefe=1", "ccr.tsvrefe=0"}

\* the current call is a read_vref or a calibrate
VrefCall == call.op \in {"read_vref", "calibrate"}

\* C11: when read_vref or calibrate returns, TSVREFE has the value it had
\* when the call began, and a call that found the block enabled makes no
\* write to the shared control block, neither before nor after its conversion
C11_VrefBlockRestored ==
    VrefCall =>
        /\ pc = "idle" => CCR.tsvrefe = pre.ccr.tsvrefe
        /\ pre.ccr.tsvrefe = 1 =>
              /\ CCR = pre.ccr
              /\ \A i \in 1..Len(trace) : trace[i] \notin CcrWrites

\* a calibrate that found the block enabled has returned, after a read_vref
\* or a calibrate that had to enable it was possible too
C11_Witness ==
    /\ call.op = "calibrate" /\ pc = "idle"
    /\ pre.ccr.tsvrefe = 1
    /\ "dr.read" \in {trace[i] : i \in 1..Len(trace)}

\* a read_vref that had to enable the block has returned
C11_WitnessEnabledByCall ==
    /\ call.op = "read_vref" /\ pc = "idle"
    /\ pre.ccr.tsvrefe = 0
    /\ "ccr.tsvrefe=1" \in {trace[i] : i \in 1..Len(trace)}

\* a calibrate has returned: ret still holds the code its conversion measured
CalibrateReturned == call.op = "calibrate" /\ pc = "idle"

\* the chip and the measurement of the worked example
Example1210 == factory = FactoryCalibration1210 /\ ret.data = 1500

\* C12 as stated: calibrate leaves calibrated_vdda at the integer quotient
\* factory reference * factory code / measured code, which is 1200 for
\* 1210 mV, 1489 and 1500
C12_CalibrateQuotient1200 ==
    CalibrateReturned =>
        /\ calibrated_vdda = (factory.vdda_calib * factory.vref_cal) \div ret.data
        /\ Example1210 => calibrated_vdda = 1200

\* C12 amended: the same quotient, which is 1201 for 1210 mV, 1489 and 1500
C12_CalibrateQuotient ==
    CalibrateReturned =>
        /\ calibrated_vdda = (factory.vdda_calib * factory.vref_cal) \div ret.data
        /\ Example1210 => calibrated_vdda = 1201

\* a calibrate of the worked example has returned
C12_Witness == CalibrateReturned /\ Example1210 /\ calibrated_vdda # 1210

----------------------------------------------------------------------------
\* The millivolt specification: an ADC1 instance of each resolution, the
\* calibration against the internal reference and the conversion of 16-bit
\* samples to millivolts.

\* the resolutions the constructor has an encoding for
Resolutions == {12, 10, 8, 6}

\* 16-bit samples: the ends of the range, the full-scale codes of 6 and 12
\* bits, and the two neighbours between which 3300 mV at 6 bits passes 65535
MvSamples == {0, 63, 1271, 1272, 4095, 65535}

InitMv == InitWith({"ADC1"}, {ResetImage}, MaxOps, {FactoryCalibration})

NextMv ==
    \/ Construct(Resolutions)
    \/ Hardware
    \/ ConvertSteps
    \/ calibrate
    \/ cal_compute
    \/ \E sample \in MvSamples : sample_to_millivolts(sample)

SpecMv == InitMv /\ [][NextMv]_vars

\* a sample_to_millivolts of an instance of a listed resolution has returned
MvReturned == call.op = "sample_to_millivolts" /\ built.bits \in Resolutions

\* C13: sample_to_millivolts(sample) is the integer quotient
\* sample * calibrated_vdda / 2^resolution for every 16-bit sample, every
\* listed resolution and every reachable calibration; it is 3299 for 4095
\* at 12 bits and 3300 mV
C13_MillivoltsQuotient ==
    MvReturned =>
        /\ max_sample = 2 ^ built.bits
        /\ ret.data = (call.n * calibrated_vdda) \div (2 ^ built.bits)
        /\ (built.bits = 12 /\ calibrated_vdda = 3300 /\ call.n = 4095) => ret.data = 3299

\* C14: sample_to_millivolts is non-decreasing over the 16-bit samples, in
\* every state of the instance, and is 0 for sample 0
C14_MillivoltsMonotonic ==
    MvReturned =>
        /\ call.n = 0 => ret.data = 0
        /\ \A a \in MvSamples :
              a <= call.n => SampleToMillivolts(a, calibrated_vdda, max_sample) <= ret.data

----------------------------------------------------------------------------
\* Discontinuous mode, the DMA buffer and the resolution.

\* C15: set_discontinuous_mode(Some(n)) with n in 1..8 leaves DISCEN = 1 and
\* DISCNUM = n - 1, the encoding of a sub-group of n conversions, and
\* set_discontinuous_mode(None) leaves DISCEN = 0
C15_DiscontinuousSubgroup ==
    (call.op = "set_discontinuous_mode" /\ pc = "idle") =>
        IF call.n = None
        THEN CR1.discen = 0
        ELSE call.n \in 1..8 => (CR1.discen = 1 /\ CR1.discnum = call.n - 1)

----------------------------------------------------------------------------
\* A channel number outside 0..18.

\* C16: set_channel_sample_time with a channel outside 0..18 ends in the
\* fatal error, and no sample-time or sequence register differs from its
\* value at the call when the error is raised
C16_BadChannelTouchesNothing ==
    (call.op = "set_channel_sample_time" /\ call.chan \notin 0..18) =>
        /\ pc = "panic"
        /\ Snapshot.smpr1 = pre.smpr1 /\ Snapshot.smpr2 = pre.smpr2
        /\ Snapshot.sqr1 = pre.sqr1 /\ Snapshot.sqr2 = pre.sqr2 /\ Snapshot.sqr3 = pre.sqr3

----------------------------------------------------------------------------
\* The DMA buffer.

C17_WitnessAccepted == call.op = "with_dma" /\ call.n = 65535 /\ transfer.made

----------------------------------------------------------------------------
\* The resolution.

\* the constructor has returned
Constructed ==
    pc \notin {"new", "new_power_down", "new_reset", "new_setup_oneshot",
                "new_resolution", "new_power_up"}

\* C19: for an instance constructed with 12, 10, 8 or 6 bits, max_sample()
\* is 4095, 1023, 255 or 63 in every state after the construction, and the
\* RES field written at construction is 0, 1, 2 or 3
C19_MaxSamplePerResolution ==
    Constructed =>
        /\ built.bits = 12 => (MaxSampleReturn = 4095 /\ CR1.res = 0)
        /\ built.bits = 10 => (MaxSampleReturn = 1023 /\ CR1.res = 1)
        /\ built.bits = 8 => (MaxSampleReturn = 255 /\ CR1.res = 2)
        /\ built.bits = 6 => (MaxSampleReturn = 63 /\ CR1.res = 3)

\* an 8-bit instance, two calls after its construction
C19_Witness ==
    /\ Constructed /\ built.bits = 8
    /\ ops >= 2
    /\ MaxSampleReturn = 255

----------------------------------------------------------------------------
\* The start flag.

\* C20: when start_conversion returns, the STRT flag its wait has seen set
\* was raised by the peripheral taking the software start of that very
\* call, for the first call and for every later one
C20_StartTakenByOwnTrigger ==
    [][(call.op = "start_conversion" /\ pc = "sc_wait_strt" /\ pc' = "idle")
          => (SR.strt = 1 /\ strtBy = call.id)]_vars

----------------------------------------------------------------------------
\* The fair specification: the conversion calls of an ADC1 instance next to a
\* peripheral that takes every pending software start and completes every
\* conversion it has started, and a processor that runs the driver's code.

InitLive == InitWith({"ADC1"}, {ResetImage, DirtyImage}, MaxLiveOps, {FactoryCalibration})

NextLive ==
    \/ Construct({12})
    \/ Hardware
    \/ ConvertSteps
    \/ \E c \in ConvChannels : convert(c)
    \/ start_conversion
    \/ \E b \in BOOLEAN : set_continuous_mode(b)

SpecLive ==
    /\ InitLive
    /\ [][NextLive]_vars
    /\ WF_vars(ConvertSteps)
    /\ WF_vars(HwStart)
    /\ WF_vars(\E d \in SampleValues : HwComplete(d))

\* C18: with a peripheral that raises STRT and then EOC after a software
\* start, every convert returns; it returns only from its read of the data
\* register, after its waits have seen STRT and EOC set, with the value the
\* register holds
C18_ConvertTerminates ==
    /\ (call.op = "convert" /\ pc = "conv_dummy_read")
           ~> (call.op = "convert" /\ pc = "idle")
    /\ [][(call.op = "convert" /\ pc # "idle" /\ pc' = "idle")
             => /\ pc = "conv_read"
                /\ ret' = DR
                /\ trace' = ConvertOrder]_vars

\* a convert has waited for the peripheral and returned the register's value
C18_Witness ==
    /\ call.op = "convert" /\ pc = "idle"
    /\ ret = DR /\ ret.data = 1500
    /\ strtBy = call.id

----------------------------------------------------------------------------
\* The conversion of the internal reference.

\* the positions of the driver inside the convert of the current call
ConvertPcs ==
    {"conv_dummy_read", "conv_sample_time", "conv_sq1", "sc_clear_eoc",
     "sc_swstart", "sc_wait_strt", "conv_wait_eoc", "conv_read"}

\* C21: the conversion of the reference channel that read_vref or calibrate
\* triggers runs with TSVREFE = 1 and VBATE = 0, whatever enable and disable
\* calls came before, and a call that had to enable the block has made the
\* stabilization delay after the enable and before the conversion
C21_VrefConvertedWhileEnabled ==
    (VrefCall /\ pc \in ConvertPcs) =>
        /\ CCR.tsvrefe = 1
        /\ CCR.vbate = 0
        /\ call.flag => SubSeq(trace, 1, 3) = <<"ccr.vbate=0", "ccr.tsvrefe=1", "delay">>

----------------------------------------------------------------------------
\* The resolution of the hardware and the maximum of the software.

\* the bit count the converter runs at for a value of CR1.RES
BitsOfRes(res) ==
    CASE res = 0 -> 12
      [] res = 1 -> 10
      [] res = 2 -> 8
      [] res = 3 -> 6

\* C22: for every resolution argument the constructor takes, listed or not,
\* max_sample() + 1 = 2^b in every state after the construction, where b is
\* the bit count CR1.RES selects
C22_MaxSampleMatchesHardware ==
    Constructed => MaxSampleReturn + 1 = 2 ^ BitsOfRes(CR1.res)

----------------------------------------------------------------------------
\* A reference measured as 0.

\* C23: a calibrate whose conversion returns 0 ends in the fatal error of
\* the division, with calibrated_vdda as it was before the call and a block
\* the call had enabled still enabled; for every other code it returns, and
\* nothing before the division touches calibrated_vdda
C23_ZeroReferencePanics ==
    /\ [][(call.op = "calibrate" /\ pc = "cal_compute" /\ pc' # pc) =>
             IF ret.data = 0
             THEN /\ pc' = "panic"
                  /\ calibrated_vdda' = calibrated_vdda
                  /\ CCR' = CCR
                  /\ call.flag => CCR'.tsvrefe = 1
             ELSE pc' = "idle"]_vars
    /\ [][(call'.op = "calibrate" /\ pc' \in ConvertPcs \cup {"cal_compute"})
             => calibrated_vdda' = calibrated_vdda]_vars
    /\ [](pc = "panic" /\ call.op = "calibrate" => ret.data = 0)

\* a calibrate that had enabled the block has ended in the fatal error
C23_Witness ==
    /\ call.op = "calibrate" /\ pc = "panic"
    /\ ret.data = 0
    /\ call.flag /\ CCR.tsvrefe = 1 /\ pre.ccr.tsvrefe = 0

====
